---- MODULE Spec2Model ----
(***************************************************************************)
(* Verification model of the CAAA search-and-analysis pipeline:            *)
(*   - the per-search worker (run_search_worker.py main) and the store     *)
(*     operations it calls (database.py),                                  *)
(*   - the relevance loop (orchestrator.py _analyze_relevance),            *)
(*   - the result extraction of the scraper (scraper.py),                  *)
(*   - concurrent get_or_create_message calls of several workers.          *)
(***************************************************************************)
EXTENDS Integers, Sequences, FiniteSets, TLC

\* ---------------------------------------------------------------- bounds
\* Largest number of rows the upstream result list holds in one search.
MaxMsgs == 3
\* The submitted max_messages cap ranges over 1..MaxCap.
MaxCap == 2
\* Rows the upstream shows on one result page.
PageSize == 2
\* The body of a message record is 0..MaxBody characters long.
MaxBody == 2

\* ------------------------------------------------------ program constants
DefaultMaxMessages == 100
DefaultMaxPages == 10
AppMaxPages == 2
MinRelevantForSynthesis == 3

MsgIds == 1..MaxMsgs

QueryTypes == {"general", "doctor_evaluation", "judge_evaluation"}

\* Query types the HTTP layer treats as evaluations of a named subject.
EvaluationModes == {"doctor_evaluation", "judge_evaluation"}

Min(a, b) == IF a < b THEN a ELSE b

\* ------------------------------------------------------------- the scraper
\* A row of the upstream table is a message id, or 0 for a row the extractor
\* skips (header row, fewer than 5 cells, no b_loadmsgjson handler).

RECURSIVE PageMessages_PerPage(_, _, _, _)
\* Variant: the position counted within the page only.
PageMessages_PerPage(rows, n_before, current_page, page_messages) ==
    IF rows = << >> THEN page_messages
    ELSE LET row == Head(rows) IN
         IF row = 0
         THEN PageMessages_PerPage(Tail(rows), n_before, current_page,
                                   page_messages)
         ELSE PageMessages_PerPage(Tail(rows), n_before, current_page,
                  Append(page_messages,
                         [message_id |-> row,
                          position   |-> Len(page_messages) + 1,
                          page       |-> current_page]))

RECURSIVE PageMessages(_, _, _, _)
\* The loop over the rows of one page: page_messages after the rows of
\* `rows`, given the records of the earlier pages (n_before of them).
PageMessages(rows, n_before, current_page, page_messages) ==
    IF rows = << >> THEN page_messages
    ELSE LET row == Head(rows) IN
         IF row = 0
         THEN PageMessages(Tail(rows), n_before, current_page, page_messages)
         ELSE PageMessages(Tail(rows), n_before, current_page,
                  Append(page_messages,
                         [message_id |-> row,
                          position   |-> n_before + Len(page_messages) + 1,
                          page       |-> current_page]))

\* Variant: the loop goes on until enough records were collected.
LoopCondition_NoPageCap(current_page, message_ids, max_pages, max_messages) ==
    Len(message_ids) < max_messages

\* scraper.py, line 173: the condition of the while loop.
LoopCondition(current_page, message_ids, max_pages, max_messages) ==
    current_page <= max_pages /\ Len(message_ids) < max_messages

RECURSIVE ExtractLoop(_, _, _, _, _, _)
\* The while loop of _extract_message_ids.  pages[p] is the table shown as
\* page p (no table when p is beyond the last page or the page has no row);
\* nav[p] tells whether _go_to_next_page succeeds on page p.
ExtractLoop(pages, nav, max_pages, max_messages, current_page, message_ids) ==
    IF ~(current_page <= max_pages /\ Len(message_ids) < max_messages)
    THEN message_ids
    ELSE IF current_page > Len(pages) \/ pages[current_page] = << >>
    THEN message_ids
    ELSE LET ids2 == message_ids \o
                     PageMessages(pages[current_page], Len(message_ids),
                                  current_page, << >>)
         IN IF Len(ids2) >= max_messages THEN ids2
            ELSE IF current_page < max_pages
                 THEN IF nav[current_page]
                      THEN ExtractLoop(pages, nav, max_pages, max_messages,
                                       current_page + 1, ids2)
                      ELSE ids2
                 ELSE ids2

\* message_ids[:max_messages]
Trim(message_ids, max_messages) ==
    SubSeq(message_ids, 1, Min(Len(message_ids), max_messages))

ExtractMessageIds(pages, nav, max_pages, max_messages) ==
    Trim(ExtractLoop(pages, nav, max_pages, max_messages, 1, << >>),
         max_messages)

RECURSIVE FetchAll_StopAtFailure(_, _)
\* Variant: the first failed fetch ends the fetch loop.
FetchAll_StopAtFailure(message_ids, failed) ==
    IF message_ids = << >> THEN << >>
    ELSE LET info == Head(message_ids) IN
           IF info.position \in failed THEN << >>
           ELSE << [caaa_message_id |-> info.message_id,
                    position |-> info.position,
                    page |-> info.page] >>
                \o FetchAll_StopAtFailure(Tail(message_ids), failed)

RECURSIVE FetchAll(_, _)
\* The fetch loop of scrape: a record is emitted for every extracted row
\* whose full-content fetch returned data; rows whose position is in
\* `failed` returned None or raised and are skipped.
FetchAll(message_ids, failed) ==
    IF message_ids = << >> THEN << >>
    ELSE LET info == Head(message_ids)
             rest == FetchAll(Tail(message_ids), failed)
         IN IF info.position \in failed THEN rest
            ELSE << [caaa_message_id |-> info.message_id,
                     position |-> info.position,
                     page |-> info.page] >> \o rest

Scrape(pages, nav, failed, max_pages, max_messages) ==
    FetchAll(ExtractMessageIds(pages, nav, max_pages, max_messages), failed)

\* The pages the upstream shows for a flat result list, PageSize rows a page.
RECURSIVE Paginate(_)
Paginate(rows) ==
    IF Len(rows) <= PageSize THEN IF rows = << >> THEN << >> ELSE << rows >>
    ELSE << SubSeq(rows, 1, PageSize) >> \o
         Paginate(SubSeq(rows, PageSize + 1, Len(rows)))

AllNav == [p \in 1..MaxMsgs + 1 |-> TRUE]

\* Upstream result lists of the worker model: the ids 1..n in order, and the
\* same with the first row shown once more at the end (the list shifted
\* while the scraper paginated), up to MaxMsgs rows.
UpstreamLists ==
    { [k \in 1..n |-> k] : n \in 0..MaxMsgs }
    \cup { [k \in 1..n + 1 |-> IF k <= n THEN k ELSE 1] : n \in 1..MaxMsgs - 1 }

\* ------------------------------------------------------------------ state
VARIABLES
    \* the searches row of the search
    status, search_params, total_messages_found, total_relevant_found,
    started_at, completed_at,
    \* the other tables
    messages_tbl, search_results, analyses, synthesis,
    \* NOW() of the store
    clock,
    \* the worker process of the search: its arguments and locals
    pc, query_type, max_messages, max_pages, messages, i, message_id,
    relevant_count, relevant_messages,
    \* history of the worker runs
    rerun, raised, synthesizer_called, skipped, caught, login_page,
    \* concurrent callers of get_or_create_message: the upstream id and the
    \* body length of the record each one stores, and the body_length column
    \* of the rows they wrote
    cpc, carg, cfound, cret, cbody, body_length,
    \* one scrape: the upstream, the fetch failures, the caps and the output
    s_pages, s_nav, s_failed, s_max_pages, s_max_messages, s_extracted,
    s_out, s_pc,
    \* the relevance loop alone: its position, the rows of the analyses table,
    \* the dict analyze_relevance returned, and the history of the calls of
    \* the reasoning service and of save_analysis
    sc_pc, analysis_rows, analysis, service_calls, service_failed, save_failed,
    \* one SearchParams through to_form_data and the worker's rebuild
    f_pc, f_spec, f_form, f_rebuilt,
    \* one request to /api/ai/analyze: the client, the typed intent, what went
    \* wrong, the SearchParams of enhance_query and the HTTP response
    p_pc, p_client, p_intent, p_fault, p_plan, p_response,
    \* one QueryEnhancer: the calls of enhance_judge_query it has served, each
    \* with its argument and the SearchParams it returned
    j_calls,
    \* one call of _extract_message_ids step by step: the upstream pages and
    \* the caps, the locals of the while loop, the pages read so far, and the
    \* last call of _go_to_next_page: the pagination bar and controls it met,
    \* the strategies it attempted and what it returned
    g_pc, g_pages, g_max_pages, g_max_messages, g_current_page,
    g_message_ids, g_read, g_navigations, g_bar, g_controls, g_attempted,
    next_page_found, g_out,
    \* one call of a synthesize_*_evaluation method: the mode, the number of
    \* messages passed, the reply of the reasoning service and the dict
    \* returned
    y_pc, y_mode, y_messages, y_reply, y_result

searchVars == << status, search_params, total_messages_found,
                 total_relevant_found, started_at, completed_at, clock >>
tableVars == << search_results, analyses, synthesis >>
localVars == << query_type, max_messages, max_pages, messages, i, message_id,
                relevant_count, relevant_messages >>
historyVars == << rerun, raised, synthesizer_called, skipped, caught,
                 login_page >>
callerVars == << cpc, carg, cfound, cret, cbody, body_length >>
scrapeVars == << s_pages, s_nav, s_failed, s_max_pages, s_max_messages,
                 s_extracted, s_out, s_pc >>
workerVars == << searchVars, tableVars, pc, localVars, historyVars >>
scoringVars == << sc_pc, analysis_rows, analysis, service_calls,
                 service_failed, save_failed >>
formVars == << f_pc, f_spec, f_form, f_rebuilt >>
planVars == << p_pc, p_client, p_intent, p_fault, p_plan, p_response >>
judgeVars == << j_calls >>
pagingVars == << g_pc, g_pages, g_max_pages, g_max_messages, g_current_page,
                 g_message_ids, g_read, g_navigations, g_bar, g_controls,
                 g_attempted, next_page_found, g_out >>
synthVars == << y_pc, y_mode, y_messages, y_reply, y_result >>
extraVars == << judgeVars, pagingVars, synthVars >>
pureVars == << formVars, planVars, extraVars >>
unitVars == << scoringVars, pureVars >>
vars == << workerVars, messages_tbl, callerVars, scrapeVars, unitVars >>

\* Python's None / SQL NULL for an integer.
None == 0 - 1

NoSynthesis == [score |-> 0, evaluation |-> "none"]
NoParams == [max_messages |-> 0, max_pages |-> 0]

\* ----------------------------------------------------------- store: rows
\* Row id of the message with this upstream id (0 when there is none):
\* SELECT id FROM messages WHERE caaa_message_id = %s
SelectMessage(tbl, caaa_message_id) ==
    IF \E k \in 1..Len(tbl) : tbl[k] = caaa_message_id
    THEN CHOOSE k \in 1..Len(tbl) : tbl[k] = caaa_message_id
    ELSE 0

\* The unique constraint of messages.caaa_message_id rejects the INSERT.
UniqueViolation(tbl, caaa_message_id) ==
    \E k \in 1..Len(tbl) : tbl[k] = caaa_message_id

\* INSERT INTO messages ... RETURNING id
InsertMessage(tbl, caaa_message_id) == Append(tbl, caaa_message_id)

\* The body_length value of the INSERT: len(body) if body else 0, for a
\* record whose body is `body` characters long.
InsertBodyLength(col, body) == Append(col, IF body # 0 THEN body ELSE 0)

\* Variant: a plain INSERT, without the ON CONFLICT clause.
AddSearchResult_NoConflict(results, mid, position, page) ==
    results \cup { [message_id |-> mid, position |-> position, page |-> page] }

\* INSERT INTO search_results ... ON CONFLICT (search_id, message_id) DO NOTHING
AddSearchResult(results, mid, position, page) ==
    IF \E r \in results : r.message_id = mid
    THEN results
    ELSE results \cup { [message_id |-> mid, position |-> position,
                         page |-> page] }

\* SELECT EXISTS(SELECT 1 FROM analyses WHERE search_id, message_id)
AnalysisExists(an, mid) == an[mid] # "none"

\* INSERT INTO analyses ... ON CONFLICT DO UPDATE SET is_relevant = ...
SaveAnalysis(an, mid, is_relevant) ==
    [an EXCEPT ![mid] = IF is_relevant THEN "relevant" ELSE "not_relevant"]

\* The rows of get_relevant_results the worker keeps: r.get('is_relevant').
RelevantResults(results, an) ==
    { r \in results : an[r.message_id] = "relevant" }

\* save_synthesis_result: one synthesis row per search, the last write stays.
SaveSynthesisResult(old, new) == new

\* UPDATE searches SET status, started_at / completed_at = NOW(), counters.
UpdateSearchStatus(new_status, total_found, total_relevant) ==
    /\ status' = new_status
    /\ started_at' = IF new_status = "running" THEN clock ELSE started_at
    /\ completed_at' = IF new_status \in {"completed", "failed"}
                       THEN clock ELSE completed_at
    /\ total_messages_found' = IF total_found # None THEN total_found
                               ELSE total_messages_found
    /\ total_relevant_found' = IF total_relevant # None THEN total_relevant
                               ELSE total_relevant_found
    /\ clock' = clock + 1

\* The row get_search_info returns: the SELECT lists no search_params column.
GetSearchInfo ==
    [status |-> status, total_messages_found |-> total_messages_found,
     total_relevant_found |-> total_relevant_found,
     started_at |-> started_at, completed_at |-> completed_at]

\* search_info.get('search_params', {})
SearchParamsDict(search_info) ==
    IF "search_params" \in DOMAIN search_info
    THEN search_info.search_params ELSE << >>

\* search_params_dict.get('max_messages', 100)
LoadedMaxMessages(d) ==
    IF "max_messages" \in DOMAIN d THEN d.max_messages ELSE DefaultMaxMessages

\* search_params_dict.get('max_pages', 10)
LoadedMaxPages(d) ==
    IF "max_pages" \in DOMAIN d THEN d.max_pages ELSE DefaultMaxPages

\* Variant: the synthesis branch taken for every query type.
IsDoctorEvaluation_AnyType(q) == q \in QueryTypes

\* The worker's branch "if query_type == 'doctor_evaluation'".
IsDoctorEvaluation(q) == q = "doctor_evaluation"

\* Variant: the threshold off by one.
EnoughForSynthesis_OffByOne(n) == n >= MinRelevantForSynthesis - 1

\* "if len(relevant_messages) >= 3"
EnoughForSynthesis(n) == n >= MinRelevantForSynthesis

\* What synthesize_doctor_evaluation can return: a clamped score with a
\* label of the allowed set, or its own error result.
SynthesizerOutputs ==
    { [score |-> s, evaluation |-> e] :
        s \in {0, 100}, e \in {"good", "bad", "mixed", "insufficient_data"} }
    \cup { [score |-> 50, evaluation |-> "error"] }

InsufficientData == [score |-> 0, evaluation |-> "insufficient_data"]
SynthesisError == [score |-> 0, evaluation |-> "error"]


\* ---------------------------------------------------------- SearchParams
\* A text value is its words and whether commas separate them; NoText is
\* None (a value that is false in a condition).
NoText == [words |-> << >>, commas |-> FALSE]

\* A date is its year, month and day; NoDate is None.
NoDate == [y |-> 0, m |-> 0, d |-> 0]

\* SearchParams(): every field at its default.
NewSearchParams ==
    [keyword |-> NoText, keywords_all |-> NoText, keywords_phrase |-> NoText,
     keywords_any |-> NoText, keywords_exclude |-> NoText,
     author_first_name |-> NoText, author_last_name |-> NoText,
     posted_by |-> NoText, date_from |-> NoDate, date_to |-> NoDate,
     listserv |-> "all", search_in |-> "subject_and_body",
     attachment_filter |-> "all",
     max_pages |-> DefaultMaxPages, max_messages |-> DefaultMaxMessages]

\* date.strftime('%m/%d/%Y'): the month, day and year fields of the string.
FormatDate(dt) == << dt.m, dt.d, dt.y >>

\* datetime.strptime(s, '%m/%d/%Y').date(); None when it raises.
ParseDate(str) ==
    IF Len(str) = 3 /\ str[1] \in 1..12 /\ str[2] \in 1..31
    THEN [y |-> str[3], m |-> str[1], d |-> str[2]]
    ELSE NoDate

\* The keys to_form_data can write.
FormKeys ==
    {"s_fname", "s_lname", "s_postedby", "s_postdatefrom", "s_postdateto",
     "s_key_all", "s_key_phrase", "s_key_one", "s_key_x", "s_list", "s_cat",
     "s_attachment", "max_messages", "max_pages"}

\* to_form_data: whether the key is written for the SearchParams sp.
FormKeyWritten(sp, k) ==
    CASE k = "s_fname" -> sp.keyword # NoText \/ sp.author_first_name # NoText
      [] k = "s_lname" -> sp.author_last_name # NoText
      [] k = "s_postedby" -> sp.posted_by # NoText
      [] k = "s_postdatefrom" -> sp.date_from # NoDate
      [] k = "s_postdateto" -> sp.date_to # NoDate
      [] k = "s_key_all" -> sp.keywords_all # NoText
      [] k = "s_key_phrase" -> sp.keywords_phrase # NoText
      [] k = "s_key_one" -> sp.keywords_any # NoText
      [] k = "s_key_x" -> sp.keywords_exclude # NoText
      [] k = "s_list" -> sp.listserv # "all"
      [] k = "s_cat" -> sp.search_in = "subject_only"
      [] k = "s_attachment" -> sp.attachment_filter # "all"
      [] OTHER -> TRUE

\* to_form_data: the value written under the key; s_fname takes the keyword
\* and is then overwritten by author_first_name.
FormValue(sp, k) ==
    CASE k = "s_fname" -> IF sp.author_first_name # NoText
                          THEN sp.author_first_name ELSE sp.keyword
      [] k = "s_lname" -> sp.author_last_name
      [] k = "s_postedby" -> sp.posted_by
      [] k = "s_postdatefrom" -> FormatDate(sp.date_from)
      [] k = "s_postdateto" -> FormatDate(sp.date_to)
      [] k = "s_key_all" -> sp.keywords_all
      [] k = "s_key_phrase" -> sp.keywords_phrase
      [] k = "s_key_one" -> sp.keywords_any
      [] k = "s_key_x" -> sp.keywords_exclude
      [] k = "s_list" -> sp.listserv
      [] k = "s_cat" -> "1"
      [] k = "s_attachment" -> IF sp.attachment_filter = "with_attachments"
                               THEN "1" ELSE "0"
      [] k = "max_messages" -> sp.max_messages
      [] k = "max_pages" -> sp.max_pages

ToFormData(sp) ==
    [k \in { key \in FormKeys : FormKeyWritten(sp, key) } |-> FormValue(sp, k)]

\* dict.get(key, default)
Get(dict, key, default) == IF key \in DOMAIN dict THEN dict[key] ELSE default

\* main, lines 60-107: the SearchParams rebuilt from the stored form data;
\* s_fname is the author's first name when s_lname is present and the
\* keyword otherwise.
RebuildSearchParams(dict) ==
    LET s_fname == Get(dict, "s_fname", NoText)
        s_lname == Get(dict, "s_lname", NoText)
        s_attachment == Get(dict, "s_attachment", "")
    IN [keyword |-> IF s_fname # NoText /\ s_lname = NoText
                    THEN s_fname ELSE NoText,
        keywords_all |-> Get(dict, "s_key_all", NoText),
        keywords_phrase |-> Get(dict, "s_key_phrase", NoText),
        keywords_any |-> Get(dict, "s_key_one", NoText),
        keywords_exclude |-> Get(dict, "s_key_x", NoText),
        listserv |-> Get(dict, "s_list", "all"),
        date_from |-> IF "s_postdatefrom" \in DOMAIN dict
                      THEN ParseDate(dict["s_postdatefrom"]) ELSE NoDate,
        date_to |-> IF "s_postdateto" \in DOMAIN dict
                    THEN ParseDate(dict["s_postdateto"]) ELSE NoDate,
        posted_by |-> Get(dict, "s_postedby", NoText),
        author_first_name |-> IF s_fname # NoText /\ s_lname # NoText
                              THEN s_fname ELSE NoText,
        author_last_name |-> s_lname,
        search_in |-> IF Get(dict, "s_cat", "") = "1"
                      THEN "subject_only" ELSE "subject_and_body",
        attachment_filter |-> IF s_attachment = "1" THEN "with_attachments"
                              ELSE IF s_attachment = "0"
                                   THEN "without_attachments" ELSE "all",
        max_messages |-> Get(dict, "max_messages", DefaultMaxMessages),
        max_pages |-> Get(dict, "max_pages", DefaultMaxPages)]

\* ------------------------------------------------------- the worker model
callerIdle ==
    /\ cpc = [w \in {"w1", "w2"} |-> "off"]
    /\ carg = [w \in {"w1", "w2"} |-> 0]
    /\ cfound = [w \in {"w1", "w2"} |-> 0]
    /\ cret = [w \in {"w1", "w2"} |-> 0]
    /\ cbody = [w \in {"w1", "w2"} |-> 0]
    /\ body_length = << >>

scrapeIdle ==
    /\ s_pages = << >>
    /\ s_nav = AllNav
    /\ s_failed = {}
    /\ s_max_pages = 0
    /\ s_max_messages = 0
    /\ s_extracted = << >>
    /\ s_out = << >>
    /\ s_pc = "off"

scoringIdle ==
    /\ sc_pc = "off"
    /\ analysis_rows = {}
    /\ analysis = [is_relevant |-> FALSE, confidence |-> 0 - 1]
    /\ service_calls = [m \in MsgIds |-> 0]
    /\ service_failed = {}
    /\ save_failed = {}

formIdle ==
    /\ f_pc = "off"
    /\ f_spec = NewSearchParams
    /\ f_form = << >>
    /\ f_rebuilt = NewSearchParams

planIdle ==
    /\ p_pc = "off"
    /\ p_client = FALSE
    /\ p_intent = NoText
    /\ p_fault = "none"
    /\ p_plan = NewSearchParams
    /\ p_response = "none"

judgeIdle == j_calls = << >>

\* The controls of a pagination bar nobody looked at.
NoControls == [k \in 1..3 |-> "absent"]

pagingIdle ==
    /\ g_pc = "off"
    /\ g_pages = << >>
    /\ g_max_pages = 0
    /\ g_max_messages = 0
    /\ g_current_page = 1
    /\ g_message_ids = << >>
    /\ g_read = 0
    /\ g_navigations = 0
    /\ g_bar = FALSE
    /\ g_controls = NoControls
    /\ g_attempted = {}
    /\ next_page_found = FALSE
    /\ g_out = << >>

\* The score and evaluation fields a reply of the reasoning service carries.
NoReply ==
    [kind |-> "none", score |-> [kind |-> "absent", v |-> 0],
     evaluation |-> "<absent>"]

synthIdle ==
    /\ y_pc = "off"
    /\ y_mode = "doctor"
    /\ y_messages = 0
    /\ y_reply = NoReply
    /\ y_result = [score |-> 0, evaluation |-> "none"]

extraIdle == judgeIdle /\ pagingIdle /\ synthIdle

unitIdle == scoringIdle /\ formIdle /\ planIdle /\ extraIdle

storeEmpty ==
    /\ status = "none"
    /\ search_params = NoParams
    /\ total_messages_found = 0
    /\ total_relevant_found = 0
    /\ started_at = 0
    /\ completed_at = 0
    /\ messages_tbl = << >>
    /\ search_results = {}
    /\ analyses = [m \in MsgIds |-> "none"]
    /\ synthesis = NoSynthesis
    /\ clock = 1

workerIdle ==
    /\ query_type = "general"
    /\ max_messages = 0
    /\ max_pages = 0
    /\ messages = << >>
    /\ i = 0
    /\ message_id = 0
    /\ relevant_count = 0
    /\ relevant_messages = 0
    /\ rerun = FALSE
    /\ raised = "no"
    /\ synthesizer_called = FALSE
    /\ skipped = FALSE
    /\ caught = FALSE
    /\ login_page = FALSE

Init ==
    /\ storeEmpty
    /\ workerIdle
    /\ pc = "unsubmitted"
    /\ callerIdle
    /\ scrapeIdle
    /\ unitIdle

\* run_search_async: the caps of the request go into the spec, create_search
\* stores the form data with status pending, the status is set to running
\* and the worker is spawned with (search_id, ai_intent, query_type).
Submit ==
    /\ pc = "unsubmitted"
    /\ \E q \in QueryTypes, cap \in 1..MaxCap :
         /\ query_type' = q
         /\ search_params' = [max_messages |-> cap, max_pages |-> AppMaxPages]
    /\ status' = "running"
    /\ started_at' = clock
    /\ clock' = clock + 1
    /\ pc' = "init"
    /\ UNCHANGED << total_messages_found, total_relevant_found, completed_at,
                    tableVars, messages_tbl, max_messages, max_pages,
                    messages, i, message_id, relevant_count,
                    relevant_messages, historyVars, callerVars, scrapeVars,
                    unitVars >>

\* run_search_async, lines 1164-1192, when the worker cannot be started:
\* create_search and update_search_status(search_id, 'running') have
\* committed, then open() of the log file or subprocess.Popen raises; the
\* endpoint answers 500 and no process exists for the search.
SubmitSpawnFails ==
    /\ pc = "unsubmitted"
    /\ \E q \in QueryTypes, cap \in 1..MaxCap :
         /\ query_type' = q
         /\ search_params' = [max_messages |-> cap, max_pages |-> AppMaxPages]
    /\ status' = "running"
    /\ started_at' = clock
    /\ clock' = clock + 1
    /\ pc' = "unspawned"
    /\ UNCHANGED << total_messages_found, total_relevant_found, completed_at,
                    tableVars, messages_tbl, max_messages, max_pages,
                    messages, i, message_id, relevant_count,
                    relevant_messages, historyVars, callerVars, scrapeVars,
                    unitVars >>

\* main, lines 36-107: the orchestrator is built, the search row is read and
\* the SearchParams are rebuilt from its search_params.
LoadParams ==
    /\ pc = "init"
    /\ LET d == SearchParamsDict(GetSearchInfo) IN
         /\ max_messages' = LoadedMaxMessages(d)
         /\ max_pages' = LoadedMaxPages(d)
    /\ pc' = "scrape"
    /\ UNCHANGED << searchVars, tableVars, messages_tbl, query_type, messages,
                    i, message_id, relevant_count, relevant_messages,
                    historyVars, callerVars, scrapeVars,
                    unitVars >>

\* _execute_search, lines 92-157, when the stored session has expired: the
\* search URL answers with the login page. goto succeeds, the fields of the
\* search form are not on the page and are skipped, the submit button of the
\* login form is clicked by the last selector of lines 138-148, and the page
\* that follows has no results table: the scraper sees no row at all. (A
\* login page without any submit button makes the last click raise: Raise.)
ShownRows(rows, login) == IF login THEN << >> ELSE rows

\* main, line 116: messages = orchestrator.scraper.scrape(search_params)
DoScrape ==
    /\ pc = "scrape"
    /\ \E rows \in UpstreamLists, login \in BOOLEAN :
         /\ messages' = Scrape(Paginate(ShownRows(rows, login)), AllNav, {},
                               max_pages, max_messages)
         /\ login_page' = login
    /\ i' = 1
    /\ pc' = IF messages' = << >> THEN "progress" ELSE "store_get"
    /\ UNCHANGED << searchVars, tableVars, messages_tbl, query_type,
                    max_messages, max_pages, message_id, relevant_count,
                    relevant_messages, rerun, raised, synthesizer_called,
                    skipped, caught, callerVars, scrapeVars, unitVars >>

\* main, line 121: get_or_create_message(msg['caaa_message_id'], msg); no
\* other process writes the table between the lookup and the insert.
StoreGetOrCreate ==
    /\ pc = "store_get"
    /\ LET found == SelectMessage(messages_tbl, messages[i].caaa_message_id) IN
         IF found # 0
         THEN /\ message_id' = found
              /\ UNCHANGED messages_tbl
         ELSE /\ messages_tbl' = InsertMessage(messages_tbl,
                                               messages[i].caaa_message_id)
              /\ message_id' = Len(messages_tbl')
    /\ pc' = "store_link"
    /\ UNCHANGED << searchVars, tableVars, query_type, max_messages, max_pages,
                    messages, i, relevant_count, relevant_messages,
                    historyVars, callerVars, scrapeVars,
                    unitVars >>

\* main, line 122: add_search_result(search_id, message_id, position, page)
StoreLink ==
    /\ pc = "store_link"
    /\ search_results' = AddSearchResult(search_results, message_id,
                                         messages[i].position, messages[i].page)
    /\ i' = i + 1
    /\ pc' = IF i = Len(messages) THEN "progress" ELSE "store_get"
    /\ UNCHANGED << searchVars, analyses, synthesis, messages_tbl, query_type,
                    max_messages, max_pages, messages, message_id,
                    relevant_count, relevant_messages, historyVars,
                    callerVars, scrapeVars,
                    unitVars >>

\* main, lines 124-191: the progress update, then the branch on query_type
\* and on len(messages) that selects the scoring path.
Progress ==
    /\ pc = "progress"
    /\ UpdateSearchStatus("running", Len(messages), None)
    /\ i' = 1
    /\ relevant_count' = 0
    /\ pc' = IF Len(messages) > 0 THEN "analyze"
             ELSE IF IsDoctorEvaluation(query_type) THEN "save_no_messages"
             ELSE "complete"
    /\ UNCHANGED << search_params, tableVars, messages_tbl, query_type,
                    max_messages, max_pages, messages, message_id,
                    relevant_messages, historyVars, callerVars, scrapeVars,
                    unitVars >>


\* Where the worker goes after the message at index i has been handled.
AfterAnalyze ==
    IF i < Len(messages) THEN "analyze"
    ELSE IF IsDoctorEvaluation(query_type) THEN "get_relevant"
    ELSE "complete"

\* _analyze_relevance, lines 251-254: the pair has an analysis, continue.
AnalyzeSkip ==
    /\ pc = "analyze"
    /\ LET mid == SelectMessage(messages_tbl, messages[i].caaa_message_id) IN
         /\ AnalysisExists(analyses, mid)
         /\ message_id' = mid
    /\ skipped' = TRUE
    /\ i' = i + 1
    /\ pc' = AfterAnalyze
    /\ UNCHANGED << searchVars, tableVars, messages_tbl, query_type,
                    max_messages, max_pages, messages, relevant_count,
                    relevant_messages, rerun,
                    login_page, raised, synthesizer_called,
                    caught, callerVars, scrapeVars,
                    unitVars >>

\* relevant_count after a verdict was saved: counted only when relevant.
CountRelevant(count, is_relevant) == IF is_relevant THEN count + 1 ELSE count

\* _analyze_relevance, lines 257-271: the verdict of analyze_relevance (its
\* default "not relevant" when the reasoning service failed) is saved.
AnalyzeSave ==
    /\ pc = "analyze"
    /\ \E is_relevant \in BOOLEAN :
         LET mid == SelectMessage(messages_tbl, messages[i].caaa_message_id) IN
           /\ ~AnalysisExists(analyses, mid)
           /\ message_id' = mid
           /\ analyses' = SaveAnalysis(analyses, mid, is_relevant)
           /\ relevant_count' = CountRelevant(relevant_count, is_relevant)
    /\ i' = i + 1
    /\ pc' = AfterAnalyze
    /\ UNCHANGED << searchVars, search_results, synthesis, messages_tbl,
                    query_type, max_messages, max_pages, messages,
                    relevant_messages, historyVars, callerVars, scrapeVars,
                    unitVars >>

\* _analyze_relevance, lines 273-274: building the prompt or save_analysis
\* raised; the loop prints the error and goes on, no row is written.
AnalyzeCaught ==
    /\ pc = "analyze"
    /\ LET mid == SelectMessage(messages_tbl, messages[i].caaa_message_id) IN
         /\ ~AnalysisExists(analyses, mid)
         /\ message_id' = mid
    /\ caught' = TRUE
    /\ i' = i + 1
    /\ pc' = AfterAnalyze
    /\ UNCHANGED << searchVars, tableVars, messages_tbl, query_type,
                    max_messages, max_pages, messages, relevant_count,
                    relevant_messages, rerun,
                    login_page, raised, synthesizer_called,
                    skipped, callerVars, scrapeVars,
                    unitVars >>

\* main, lines 139-144: the relevant rows are read back from the store and
\* their number decides between synthesis and insufficient_data.
GetRelevant ==
    /\ pc = "get_relevant"
    /\ relevant_messages' = Cardinality(RelevantResults(search_results, analyses))
    /\ pc' = IF EnoughForSynthesis(relevant_messages')
             THEN "synthesize" ELSE "save_insufficient"
    /\ UNCHANGED << searchVars, tableVars, messages_tbl, query_type,
                    max_messages, max_pages, messages, i, message_id,
                    relevant_count, historyVars, callerVars, scrapeVars,
                    unitVars >>

\* main, lines 146-150: the synthesizer is called and its result saved.
Synthesize ==
    /\ pc = "synthesize"
    /\ \E out \in SynthesizerOutputs :
         synthesis' = SaveSynthesisResult(synthesis, out)
    /\ synthesizer_called' = TRUE
    /\ pc' = "complete"
    /\ UNCHANGED << searchVars, search_results, analyses, messages_tbl,
                    localVars, rerun,
                    login_page, raised, skipped, caught, callerVars,
                    scrapeVars, unitVars >>

\* main, lines 155-158: the synthesizer call or the save of its result raised.
SynthesizeRaises ==
    /\ pc = "synthesize"
    /\ synthesizer_called' = TRUE
    /\ pc' = "synthesis_error"
    /\ UNCHANGED << searchVars, tableVars, messages_tbl, localVars, rerun,
                    login_page,
                    raised, skipped, caught, callerVars, scrapeVars,
                    unitVars >>

\* main, lines 159-164: the error synthesis is saved.
SaveSynthesisError ==
    /\ pc = "synthesis_error"
    /\ synthesis' = SaveSynthesisResult(synthesis, SynthesisError)
    /\ pc' = "complete"
    /\ UNCHANGED << searchVars, search_results, analyses, messages_tbl,
                    localVars, historyVars, callerVars, scrapeVars,
                    unitVars >>

\* main, lines 165-172: fewer than 3 relevant messages.
SaveInsufficient ==
    /\ pc = "save_insufficient"
    /\ synthesis' = SaveSynthesisResult(synthesis, InsufficientData)
    /\ pc' = "complete"
    /\ UNCHANGED << searchVars, search_results, analyses, messages_tbl,
                    localVars, historyVars, callerVars, scrapeVars,
                    unitVars >>

\* main, lines 173-181: a doctor evaluation that retrieved no message.
SaveNoMessages ==
    /\ pc = "save_no_messages"
    /\ synthesis' = SaveSynthesisResult(synthesis, InsufficientData)
    /\ relevant_count' = 0
    /\ pc' = "complete"
    /\ UNCHANGED << searchVars, search_results, analyses, messages_tbl,
                    query_type, max_messages, max_pages, messages, i,
                    message_id, relevant_messages, historyVars, callerVars,
                    scrapeVars, unitVars >>

\* main, line 194: update_search_status(search_id, 'completed', total_relevant)
Complete ==
    /\ pc = "complete"
    /\ UpdateSearchStatus("completed", None, relevant_count)
    /\ pc' = "exited"
    /\ UNCHANGED << search_params, tableVars, messages_tbl, localVars,
                    historyVars, callerVars, scrapeVars,
                    unitVars >>

\* The steps of main whose exception reaches "except Exception" at line 197:
\* every call to the store, the scraper, the set-up of the orchestrator.
UncaughtSteps ==
    {"init", "scrape", "store_get", "store_link", "progress", "analyze",
     "get_relevant", "synthesis_error", "save_insufficient",
     "save_no_messages", "complete"}

\* The current step raises; nothing of the step is committed.
Raise ==
    /\ pc \in UncaughtSteps
    /\ raised' = pc
    /\ pc' = "handler"
    /\ UNCHANGED << searchVars, tableVars, messages_tbl, localVars, rerun,
                    login_page,
                    synthesizer_called, skipped, caught, callerVars,
                    scrapeVars, unitVars >>

\* main, lines 203-205: a new Database marks the search failed.
HandlerMarksFailed ==
    /\ pc = "handler"
    /\ UpdateSearchStatus("failed", None, None)
    /\ pc' = "exited"
    /\ UNCHANGED << search_params, tableVars, messages_tbl, localVars,
                    historyVars, callerVars, scrapeVars,
                    unitVars >>

\* main, lines 203-204: Database(db_config) or the update itself raises
\* inside the handler; the process ends with the traceback.
HandlerRaises ==
    /\ pc = "handler"
    /\ raised' = "handler"
    /\ pc' = "exited"
    /\ UNCHANGED << searchVars, tableVars, messages_tbl, localVars, rerun,
                    login_page,
                    synthesizer_called, skipped, caught, callerVars,
                    scrapeVars, unitVars >>

\* run_search_worker.py is started once more with the same arguments.
Rerun ==
    /\ pc = "exited"
    /\ ~rerun
    /\ rerun' = TRUE
    /\ pc' = "init"
    /\ raised' = "no"
    /\ synthesizer_called' = FALSE
    /\ skipped' = FALSE
    /\ caught' = FALSE
    /\ login_page' = FALSE
    /\ max_messages' = 0
    /\ max_pages' = 0
    /\ messages' = << >>
    /\ i' = 0
    /\ message_id' = 0
    /\ relevant_count' = 0
    /\ relevant_messages' = 0
    /\ UNCHANGED << searchVars, tableVars, messages_tbl, query_type,
                    callerVars, scrapeVars,
                    unitVars >>

Next ==
    \/ Submit
    \/ SubmitSpawnFails
    \/ LoadParams
    \/ DoScrape
    \/ StoreGetOrCreate
    \/ StoreLink
    \/ Progress
    \/ AnalyzeSkip
    \/ AnalyzeSave
    \/ AnalyzeCaught
    \/ GetRelevant
    \/ Synthesize
    \/ SynthesizeRaises
    \/ SaveSynthesisError
    \/ SaveInsufficient
    \/ SaveNoMessages
    \/ Complete
    \/ Raise
    \/ HandlerMarksFailed
    \/ HandlerRaises
    \/ Rerun

Spec == Init /\ [][Next]_vars

\* The steps of the worker process, from its start to its exit.
WorkerStep ==
    \/ LoadParams
    \/ DoScrape
    \/ StoreGetOrCreate
    \/ StoreLink
    \/ Progress
    \/ AnalyzeSkip
    \/ AnalyzeSave
    \/ AnalyzeCaught
    \/ GetRelevant
    \/ Synthesize
    \/ SynthesizeRaises
    \/ SaveSynthesisError
    \/ SaveInsufficient
    \/ SaveNoMessages
    \/ Complete
    \/ Raise
    \/ HandlerMarksFailed
    \/ HandlerRaises

\* The operating system schedules the worker process until it exits: a
\* step of the worker that can be taken is taken. Nothing starts the worker
\* a second time or submits a search on its own.
SpecLive == Spec /\ WF_vars(WorkerStep)

\* ------------------------------------------------------- derived counts
\* get_search_stats: COUNT(DISTINCT a.id), the Analysis rows of the search.
AnalyzedCount == Cardinality({ m \in MsgIds : analyses[m] # "none" })

\* The Analysis rows of the search with is_relevant = TRUE.
RelevantAnalyses == Cardinality({ m \in MsgIds : analyses[m] = "relevant" })

\* ------------------------------------------------------------ the claims

\* A step that leaves a search in a terminal status as it is.
TerminalKept ==
    status \in {"completed", "failed"} =>
        /\ status' = status
        /\ total_messages_found' = total_messages_found
        /\ total_relevant_found' = total_relevant_found
        /\ completed_at' = completed_at

\* C1: once the status of a search is completed or failed, no later
\* operation changes its status, its counters or completed_at.
C1_TerminalImmutable == [][TerminalKept]_vars

\* C2: when a step of the worker raised an uncaught exception (and the
\* handler wrote its status), the search is failed, completed_at is set and
\* no SynthesisResult exists.
C2_FailedWithoutSynthesis ==
    (pc = "exited" /\ raised \notin {"no", "handler"}) =>
        /\ status = "failed"
        /\ completed_at # 0
        /\ synthesis = NoSynthesis

C5_InsufficientDataPersisted ==
    (pc = "exited" /\ raised = "no" /\ query_type \in EvaluationModes
     /\ relevant_count < MinRelevantForSynthesis) =>
        (synthesis = InsufficientData /\ ~synthesizer_called)

\* C6: a completed search has messages_found >= 0, analyzed <= messages_found
\* and relevant <= analyzed.
C6_CounterOrder ==
    status = "completed" =>
        /\ total_messages_found >= 0
        /\ AnalyzedCount <= total_messages_found
        /\ total_relevant_found <= AnalyzedCount

\* C7: a completed search has at most as many Analysis rows as SearchResult
\* rows, and its relevant counter equals the number of relevant Analysis rows.
C7_RelevantCounterExact ==
    status = "completed" =>
        /\ AnalyzedCount <= Cardinality(search_results)
        /\ total_relevant_found = RelevantAnalyses

\* C8: a completed search has at most max_messages SearchResult rows, for
\* the max_messages of the persisted SearchSpec.
C8_ResultsWithinCap ==
    status = "completed" =>
        Cardinality(search_results) <= search_params.max_messages

\* C12: however often add_search_result links a message to the search, with
\* equal or different position and page, the search has exactly one
\* SearchResult row for every message it linked.
C12_OneRowPerPair ==
    /\ \A r1, r2 \in search_results :
         r1.message_id = r2.message_id => r1 = r2
    /\ pc \in {"store_get", "progress"} =>
         \A k \in 1..Len(messages) :
            k < i => \E r \in search_results :
                       r.message_id = SelectMessage(messages_tbl,
                                          messages[k].caaa_message_id)

\* C12 witness: the store loop has linked a message a second time, at a
\* different position, and has finished.
C12_Witness ==
    /\ pc = "progress"
    /\ \E j, k \in 1..Len(messages) :
         /\ j < k
         /\ messages[j].caaa_message_id = messages[k].caaa_message_id
         /\ messages[j].position # messages[k].position
    /\ Cardinality(search_results) = Len(messages) - 1

\* C16: the caps of the SearchParams the worker hands to the scraper are the
\* caps of the spec persisted for the search by create_search.
C16_WorkerUsesPersistedSpec ==
    pc = "scrape" =>
        /\ max_messages = search_params.max_messages
        /\ max_pages = search_params.max_pages

\* The steps of main that write to the store.
StoreWriteSteps ==
    {"store_get", "store_link", "progress", "synthesis_error",
     "save_insufficient", "save_no_messages", "complete"}

\* C20: a run of the worker in which a single store write raised does not
\* end with the search in status failed (the write is retried once).
C20_SingleWriteFailureSurvives ==
    (pc = "exited" /\ ~rerun /\ raised \in StoreWriteSteps) =>
        status # "failed"

\* C21: a worker run whose scrape was answered with the login page (expired
\* cookies) leaves the search failed once the worker has exited, never
\* completed with zero messages.
C21_LoginPageFails ==
    (login_page /\ pc = "exited") => status = "failed"

\* C28: a search that was set to running eventually has the status
\* completed or failed, under fair scheduling of the worker; also when the
\* worker could not be spawned, when its set-up raises and when the write of
\* the failed status raises.
C28_RunningEndsTerminal ==
    (status = "running") ~> (status \in {"completed", "failed"})

\* started_at, once written, is the same after the step.
StartedAtKept == started_at # 0 => started_at' = started_at

\* C29: started_at is written once, when the search is set to running, and no
\* later status update of the search changes it, the progress update that
\* reports the number of messages found included.
C29_StartedAtWrittenOnce == [][StartedAtKept]_vars

\* The steps of a worker run after its progress update.
AfterStoring ==
    {"analyze", "get_relevant", "synthesize", "synthesis_error",
     "save_insufficient", "save_no_messages", "complete"}

\* C30: after the storing step of a worker run the counter of messages found
\* equals the number of search_results rows of the search, also when the
\* list showed a message twice or the search had rows of an earlier run.
C30_FoundCountsLinkedRows ==
    pc \in AfterStoring => total_messages_found = Cardinality(search_results)

\* -------------------------------------------------------- one scrape alone
\* The upstream of a scrape: n rows, row k the message k or a row without a
\* usable id, shown PageSize rows a page.
UpstreamRows ==
    { [k \in 1..n |-> IF k \in skip THEN 0 ELSE k] :
        n \in 0..MaxMsgs, skip \in SUBSET (1..MaxMsgs) }

\* On which pages the navigation to the next page succeeds.
NavChoices ==
    { [p \in 1..MaxMsgs + 1 |-> p \in ok] : ok \in SUBSET (1..MaxMsgs) }

InitScrape ==
    /\ storeEmpty
    /\ workerIdle
    /\ pc = "off"
    /\ callerIdle
    /\ unitIdle
    /\ s_pages \in { Paginate(rows) : rows \in UpstreamRows }
    /\ s_nav \in NavChoices
    /\ s_max_pages \in 0..MaxMsgs
    /\ s_max_messages \in 0..MaxMsgs
    /\ s_failed = {}
    /\ s_extracted = << >>
    /\ s_out = << >>
    /\ s_pc = "extract"

\* scrape, lines 53-58: message_ids = self._extract_message_ids(...)
ScrapeExtract ==
    /\ s_pc = "extract"
    /\ s_extracted' = ExtractMessageIds(s_pages, s_nav, s_max_pages,
                                        s_max_messages)
    /\ s_pc' = "fetch"
    /\ UNCHANGED << workerVars, messages_tbl, callerVars, unitVars,
                    s_pages, s_nav,
                    s_failed, s_max_pages, s_max_messages, s_out >>

\* scrape, lines 62-81: the fetch loop; the content fetch of the rows in
\* `failed` returns None or raises.
ScrapeFetch ==
    /\ s_pc = "fetch"
    /\ \E failed \in SUBSET { s_extracted[k].position : k \in 1..Len(s_extracted) } :
         /\ s_failed' = failed
         /\ s_out' = FetchAll(s_extracted, failed)
    /\ s_pc' = "done"
    /\ UNCHANGED << workerVars, messages_tbl, callerVars, unitVars,
                    s_pages, s_nav,
                    s_max_pages, s_max_messages, s_extracted >>

NextScrape == ScrapeExtract \/ ScrapeFetch

SpecScrape == InitScrape /\ [][NextScrape]_vars

\* The emitted records keep the order of the upstream rows (row k holds the
\* message k) and their positions grow.
OrderKept ==
    \A j, k \in 1..Len(s_out) :
        j < k => /\ s_out[j].caaa_message_id < s_out[k].caaa_message_id
                 /\ s_out[j].position < s_out[k].position
                 /\ s_out[j].page <= s_out[k].page

\* C9 (as stated): the emitted records keep the upstream order and their
\* positions are exactly 1..N, N the number of emitted records.
C9_PositionsGapless ==
    s_pc = "done" =>
        /\ OrderKept
        /\ \A k \in 1..Len(s_out) : s_out[k].position = k

\* C9 (amended): the emitted records keep the upstream order; the position of
\* a record is the rank of its row among the extracted rows, so positions
\* grow strictly within 1..K (K the number of extracted rows) and are
\* exactly 1..N when no content fetch failed; the rank of a row whose fetch
\* failed is left out.
C9_PositionsAreRanks ==
    s_pc = "done" =>
        /\ OrderKept
        /\ \A k \in 1..Len(s_extracted) : s_extracted[k].position = k
        /\ \A k \in 1..Len(s_out) :
             /\ s_out[k].position \in 1..Len(s_extracted)
             /\ s_out[k].position \notin s_failed
        /\ Len(s_out) = Len(s_extracted) - Cardinality(s_failed)
        /\ s_failed = {} => \A k \in 1..Len(s_out) : s_out[k].position = k

\* C9 witness: records of two pages are emitted although the fetch of the
\* first extracted row failed.
C9_Witness ==
    /\ s_pc = "done"
    /\ 1 \in s_failed
    /\ Len(s_out) >= 2
    /\ s_out[Len(s_out)].page > s_out[1].page

\* C25: scrape has returned, and a record was emitted for exactly the
\* extracted rows whose content fetch did not fail: a failed fetch skips that
\* row only.
C25_FailureSkipsOnlyThatMessage ==
    s_pc = "done" =>
        \A k \in 1..Len(s_extracted) :
            (s_extracted[k].position \notin s_failed)
            <=> \E j \in 1..Len(s_out) :
                  /\ s_out[j].position = s_extracted[k].position
                  /\ s_out[j].caaa_message_id = s_extracted[k].message_id

\* The fetch of an extracted row failed and a later row was emitted.
C25_Witness ==
    /\ s_pc = "done"
    /\ \E j, k \in 1..Len(s_extracted) :
         /\ j < k
         /\ s_extracted[j].position \in s_failed
         /\ s_extracted[k].position \notin s_failed
         /\ \E x \in 1..Len(s_out) :
              s_out[x].position = s_extracted[k].position

\* ----------------------------------- concurrent get_or_create_message calls
Callers == {"w1", "w2"}

\* The upstream ids the callers store: the result lists of the two searches
\* overlap in these messages.
CallerIds == {1, 2}

InitCallers ==
    /\ storeEmpty
    /\ workerIdle
    /\ pc = "off"
    /\ scrapeIdle
    /\ unitIdle
    /\ cpc = [w \in Callers |-> "idle"]
    /\ carg = [w \in Callers |-> 0]
    /\ cfound = [w \in Callers |-> 0]
    /\ cret = [w \in Callers |-> 0]
    /\ cbody = [w \in Callers |-> 0]
    /\ body_length = << >>

\* A worker calls get_or_create_message for the next message of its list.
CallerStart(w) ==
    /\ cpc[w] \in {"idle", "returned"}
    /\ \E id \in CallerIds, body \in 0..MaxBody :
         /\ carg' = [carg EXCEPT ![w] = id]
         /\ cbody' = [cbody EXCEPT ![w] = body]
    /\ cpc' = [cpc EXCEPT ![w] = "select"]
    /\ cfound' = [cfound EXCEPT ![w] = 0]
    /\ cret' = [cret EXCEPT ![w] = 0]
    /\ UNCHANGED << workerVars, messages_tbl, body_length, scrapeVars,
                    unitVars >>

\* get_or_create_message, lines 142-149: the lookup; return when found.
CallerSelect(w) ==
    /\ cpc[w] = "select"
    /\ LET found == SelectMessage(messages_tbl, carg[w]) IN
         /\ cfound' = [cfound EXCEPT ![w] = found]
         /\ cret' = [cret EXCEPT ![w] = found]
         /\ cpc' = [cpc EXCEPT ![w] = IF found # 0 THEN "returned" ELSE "insert"]
    /\ UNCHANGED << workerVars, messages_tbl, body_length, carg, cbody,
                    scrapeVars, unitVars >>

\* get_or_create_message, lines 152-178: the INSERT of a row the lookup did
\* not find, and its commit.
CallerInsert(w) ==
    /\ cpc[w] = "insert"
    /\ IF UniqueViolation(messages_tbl, carg[w])
       THEN /\ cpc' = [cpc EXCEPT ![w] = "raised"]
            /\ UNCHANGED << messages_tbl, body_length, cret >>
       ELSE /\ messages_tbl' = InsertMessage(messages_tbl, carg[w])
            /\ body_length' = InsertBodyLength(body_length, cbody[w])
            /\ cret' = [cret EXCEPT ![w] = Len(messages_tbl')]
            /\ cpc' = [cpc EXCEPT ![w] = "returned"]
    /\ UNCHANGED << workerVars, carg, cfound, cbody, scrapeVars,
                    unitVars >>

NextCallers ==
    \E w \in Callers : CallerStart(w) \/ CallerSelect(w) \/ CallerInsert(w)

SpecCallers == InitCallers /\ [][NextCallers]_vars

\* C10: after any interleaving of get_or_create_message calls the Message
\* table holds at most one row per upstream id and every call returned the
\* id of that row.
C10_OneRowAndEveryCallReturns ==
    /\ \A j, k \in 1..Len(messages_tbl) :
         messages_tbl[j] = messages_tbl[k] => j = k
    /\ \A w \in Callers :
         /\ cpc[w] # "raised"
         /\ cpc[w] = "returned" =>
              (cret[w] \in 1..Len(messages_tbl)
               /\ messages_tbl[cret[w]] = carg[w])

\* C11: when two workers (two different searches) have stored the same
\* upstream message with bodies of different length, the message has exactly
\* one Message row, both calls returned it, and its body is the longer of
\* the two, whichever call came first.
C11_LongerBodyKept ==
    \A w, v \in Callers :
        (w # v /\ cpc[w] = "returned" /\ cpc[v] = "returned"
         /\ carg[w] = carg[v] /\ cbody[w] > cbody[v]) =>
            /\ Cardinality({ k \in 1..Len(messages_tbl) :
                               messages_tbl[k] = carg[w] }) = 1
            /\ cret[w] = cret[v]
            /\ body_length[cret[w]] = cbody[w]

\* --------------------------------------------------- the relevance loop alone
\* A confidence is held in tenths: ConfidenceOne is the confidence 1.0.
ConfidenceOne == 10

\* The confidence values the reasoning service writes into its JSON reply.
ReplyConfidences == {5, 10, 15}

\* What a call of the reasoning service does: it raises (network, API), it
\* replies with the JSON object wrapped in prose, or it replies with the
\* JSON object alone.
ServiceOutcomes ==
    { [kind |-> "error", is_relevant |-> FALSE, confidence |-> 0],
      [kind |-> "prose", is_relevant |-> TRUE, confidence |-> 5] }
    \cup { [kind |-> "json", is_relevant |-> b, confidence |-> c] :
              b \in BOOLEAN, c \in ReplyConfidences }

\* _parse_response, except branch: the reply is no JSON document.
FailedToParse == [is_relevant |-> FALSE, confidence |-> 0]

\* _parse_response: the pattern {[sS]*} finds no JSON object in the reply,
\* so json.loads reads the whole text; bool(is_relevant), float(confidence).
ParseResponse(reply) ==
    IF reply.kind = "json"
    THEN [is_relevant |-> reply.is_relevant, confidence |-> reply.confidence]
    ELSE FailedToParse

\* Variant: the verdict returned when the call raised counts as relevant.
ErrorVerdict_Relevant == [is_relevant |-> TRUE, confidence |-> 5]

\* analyze_relevance, except branch: the default "not relevant" verdict.
ErrorVerdict == [is_relevant |-> FALSE, confidence |-> 0]

\* analyze_relevance: the dict it returns for an outcome of the service call.
AnalyzeRelevance(outcome) ==
    IF outcome.kind = "error" THEN ErrorVerdict ELSE ParseResponse(outcome)

\* Variant: the existence check never finds a row.
AnalysisRowExists_Never(rows, mid) == FALSE

\* analysis_exists on the rows of the analyses table of the search.
AnalysisRowExists(rows, mid) == \E r \in rows : r.message_id = mid

\* save_analysis: INSERT ... ON CONFLICT (search_id, message_id) DO UPDATE.
SaveAnalysisRow(rows, mid, a) ==
    { r \in rows : r.message_id # mid }
    \cup { [message_id |-> mid, is_relevant |-> a.is_relevant,
            confidence |-> a.confidence] }

\* The search after retrieval: the worker stored and linked the records of
\* the result list and is about to score them (general search).
InitScoring ==
    /\ \E rows \in UpstreamLists \ { << >> } :
         LET n == Cardinality({ rows[k] : k \in 1..Len(rows) }) IN
           /\ messages = Scrape(Paginate(rows), AllNav, {}, DefaultMaxPages,
                                DefaultMaxMessages)
           /\ messages_tbl = [k \in 1..n |-> k]
           /\ search_results =
                { [message_id |-> k, position |-> k,
                   page |-> messages[k].page] : k \in 1..n }
           /\ total_messages_found = Len(rows)
    /\ status = "running"
    /\ search_params = NoParams
    /\ total_relevant_found = 0
    /\ started_at = 1
    /\ completed_at = 0
    /\ clock = 2
    /\ analyses = [m \in MsgIds |-> "none"]
    /\ synthesis = NoSynthesis
    /\ query_type = "general"
    /\ max_messages = DefaultMaxMessages
    /\ max_pages = DefaultMaxPages
    /\ i = 1
    /\ message_id = 0
    /\ relevant_count = 0
    /\ relevant_messages = 0
    /\ rerun = FALSE
    /\ raised = "no"
    /\ synthesizer_called = FALSE
    /\ skipped = FALSE
    /\ caught = FALSE
    /\ login_page = FALSE
    /\ pc = "off"
    /\ callerIdle
    /\ scrapeIdle
    /\ sc_pc = "lookup"
    /\ analysis_rows = {}
    /\ analysis = [is_relevant |-> FALSE, confidence |-> None]
    /\ service_calls = [m \in MsgIds |-> 0]
    /\ service_failed = {}
    /\ save_failed = {}
    /\ formIdle
    /\ planIdle
    /\ extraIdle

\* Where the loop goes after the message at index i has been handled.
AfterScore == IF i < Len(messages) THEN "lookup" ELSE "complete"

\* _analyze_relevance, lines 243-254: the pair has an Analysis row, continue.
ScoreSkip ==
    /\ sc_pc = "lookup"
    /\ LET mid == SelectMessage(messages_tbl, messages[i].caaa_message_id) IN
         /\ AnalysisRowExists(analysis_rows, mid)
         /\ message_id' = mid
    /\ skipped' = TRUE
    /\ i' = i + 1
    /\ sc_pc' = AfterScore
    /\ UNCHANGED << searchVars, tableVars, pc, messages_tbl, query_type,
                    max_messages, max_pages, messages, relevant_count,
                    relevant_messages, rerun,
                    login_page, raised, synthesizer_called,
                    caught, callerVars, scrapeVars, analysis_rows, analysis,
                    service_calls, service_failed, save_failed ,
                    pureVars >>

\* _analyze_relevance, lines 243-262: the pair has no row; analyze_relevance
\* calls the reasoning service and returns its verdict, or the default
\* verdict when the call raised or the reply could not be parsed.
ScoreCall ==
    /\ sc_pc = "lookup"
    /\ LET mid == SelectMessage(messages_tbl, messages[i].caaa_message_id) IN
         /\ ~AnalysisRowExists(analysis_rows, mid)
         /\ message_id' = mid
         /\ service_calls' = [service_calls EXCEPT ![mid] = @ + 1]
         /\ \E outcome \in ServiceOutcomes :
              /\ analysis' = AnalyzeRelevance(outcome)
              /\ service_failed' = IF outcome.kind = "json"
                                   THEN service_failed \ {mid}
                                   ELSE service_failed \cup {mid}
    /\ sc_pc' = "save"
    /\ UNCHANGED << searchVars, tableVars, pc, messages_tbl, query_type,
                    max_messages, max_pages, messages, i, relevant_count,
                    relevant_messages, historyVars, callerVars, scrapeVars,
                    analysis_rows, save_failed ,
                    pureVars >>

\* _analyze_relevance, lines 265-271: the verdict is saved and counted.
ScoreSave ==
    /\ sc_pc = "save"
    /\ analysis_rows' = SaveAnalysisRow(analysis_rows, message_id, analysis)
    /\ relevant_count' = CountRelevant(relevant_count, analysis.is_relevant)
    /\ save_failed' = save_failed \ {message_id}
    /\ i' = i + 1
    /\ sc_pc' = AfterScore
    /\ UNCHANGED << searchVars, tableVars, pc, messages_tbl, query_type,
                    max_messages, max_pages, messages, message_id,
                    relevant_messages, historyVars, callerVars, scrapeVars,
                    analysis, service_calls, service_failed ,
                    pureVars >>

\* _analyze_relevance, lines 273-274: save_analysis raised; the loop prints
\* the error and goes on without a row for the pair.
ScoreSaveRaises ==
    /\ sc_pc = "save"
    /\ save_failed' = save_failed \cup {message_id}
    /\ caught' = TRUE
    /\ i' = i + 1
    /\ sc_pc' = AfterScore
    /\ UNCHANGED << searchVars, tableVars, pc, messages_tbl, query_type,
                    max_messages, max_pages, messages, message_id,
                    relevant_count, relevant_messages, rerun,
                    login_page, raised,
                    synthesizer_called, skipped, callerVars, scrapeVars,
                    analysis_rows, analysis, service_calls, service_failed ,
                    pureVars >>

\* main, lines 188-194: the loop returned, the search is marked completed.
ScoreComplete ==
    /\ sc_pc = "complete"
    /\ UpdateSearchStatus("completed", None, relevant_count)
    /\ sc_pc' = "exited"
    /\ UNCHANGED << search_params, tableVars, pc, messages_tbl, localVars,
                    historyVars, callerVars, scrapeVars, analysis_rows,
                    analysis, service_calls, service_failed, save_failed ,
                    pureVars >>

\* The worker is started once more for the search: it stores the same
\* records again, reports progress (main, line 124) and scores them again.
ScoreRerun ==
    /\ sc_pc = "exited"
    /\ ~rerun
    /\ rerun' = TRUE
    /\ UpdateSearchStatus("running", Len(messages), None)
    /\ i' = 1
    /\ relevant_count' = 0
    /\ skipped' = FALSE
    /\ caught' = FALSE
    /\ sc_pc' = "lookup"
    /\ UNCHANGED << search_params, tableVars, pc, messages_tbl, query_type,
                    max_messages, max_pages, messages, message_id,
                    relevant_messages, raised, synthesizer_called,
                    login_page, callerVars, scrapeVars, analysis_rows,
                    analysis,
                    service_calls, service_failed, save_failed ,
                    pureVars >>

NextScoring ==
    \/ ScoreSkip
    \/ ScoreCall
    \/ ScoreSave
    \/ ScoreSaveRaises
    \/ ScoreComplete
    \/ ScoreRerun

SpecScoring == InitScoring /\ [][NextScoring]_vars

\* The Analysis rows of the message with row id m.
RowsOf(rows, m) == { r \in rows : r.message_id = m }

\* A step that leaves every pair that has an Analysis as it is: no call of
\* the reasoning service for it, the same single row afterwards.
ScoredKept ==
    \A m \in MsgIds :
        RowsOf(analysis_rows, m) # {} =>
            /\ service_calls'[m] = service_calls[m]
            /\ RowsOf(analysis_rows', m) = RowsOf(analysis_rows, m)
            /\ Cardinality(RowsOf(analysis_rows', m)) = 1

\* C13: scoring a (search, message) pair that already has an Analysis does
\* not call the reasoning service for it, leaves the persisted Analysis
\* unchanged and leaves exactly one Analysis row for the pair.
C13_ScoredPairKept == [][ScoredKept]_vars

\* C13 witness: a second run of the scoring skipped a pair that the first
\* run scored relevant with one call of the reasoning service, and ended.
C13_Witness ==
    /\ rerun
    /\ skipped
    /\ sc_pc = "exited"
    /\ \E r \in analysis_rows :
         r.is_relevant /\ service_calls[r.message_id] = 1

\* C14: every persisted Analysis has a confidence between 0 and 1, whatever
\* numeric confidence the reasoning service wrote into its JSON reply.
C14_ConfidenceInRange ==
    \A r \in analysis_rows :
        0 <= r.confidence /\ r.confidence <= ConfidenceOne

\* C19: a message on which the reasoning service failed (the call raised or
\* the reply could not be parsed) gets the default verdict persisted, not
\* relevant with confidence 0.0; the loop goes on to the last message and
\* the search ends completed.
C19_ServiceFailureDegrades ==
    /\ \A m \in service_failed \ save_failed :
         \/ sc_pc = "save" /\ message_id = m
         \/ RowsOf(analysis_rows, m) =
               { [message_id |-> m, is_relevant |-> FALSE, confidence |-> 0] }
    /\ sc_pc \in {"complete", "exited"} => i = Len(messages) + 1
    /\ sc_pc = "exited" => status = "completed"

\* C19 witness: the service failed on a message, a later message was scored
\* relevant, every verdict was saved and the search is completed.
C19_Witness ==
    /\ sc_pc = "exited"
    /\ ~rerun
    /\ status = "completed"
    /\ save_failed = {}
    /\ \E r1, r2 \in analysis_rows :
         /\ r1.message_id \in service_failed
         /\ r1.message_id < r2.message_id
         /\ r2.is_relevant

\* ------------------------------- one SearchParams: form data and rebuild
\* A one-word text.
Word(w) == [words |-> << w >>, commas |-> FALSE]

\* A date whose month and day differ.
SomeDate == [y |-> 2024, m |-> 3, d |-> 15]

\* The SearchParams the round trip is run on: every text field unset or
\* set, each date unset or set, every value of the three choice fields and
\* the caps a request can carry.
SearchParamsInputs ==
    { [keyword |-> kw, keywords_all |-> ka, keywords_phrase |-> kp,
       keywords_any |-> ko, keywords_exclude |-> kx,
       author_first_name |-> fn, author_last_name |-> ln, posted_by |-> pb,
       date_from |-> df, date_to |-> dt, listserv |-> ls, search_in |-> si,
       attachment_filter |-> af, max_pages |-> AppMaxPages,
       max_messages |-> cap] :
        kw \in {NoText, Word("sibtf")},
        ka \in {NoText, [words |-> << "qme", "panel" >>, commas |-> TRUE]},
        kp \in {NoText, Word("apportionment")},
        ko \in {NoText, Word("ame")},
        kx \in {NoText, Word("defense")},
        fn \in {NoText, Word("john")},
        ln \in {NoText, Word("smith")},
        pb \in {NoText, Word("lee")},
        df \in {NoDate, SomeDate},
        dt \in {NoDate, SomeDate},
        ls \in {"all", "lawnet"},
        si \in {"subject_and_body", "subject_only"},
        af \in {"all", "with_attachments", "without_attachments"},
        cap \in 1..MaxCap }

InitForm ==
    /\ storeEmpty
    /\ workerIdle
    /\ pc = "off"
    /\ callerIdle
    /\ scrapeIdle
    /\ scoringIdle
    /\ planIdle
    /\ extraIdle
    /\ f_pc = "spec"
    /\ f_spec \in SearchParamsInputs
    /\ f_form = << >>
    /\ f_rebuilt = NewSearchParams

\* create_search, line 67: form_data = search_params.to_form_data(); the
\* strings and integers of the map are stored as JSON and read back as they
\* are.
FormConvert ==
    /\ f_pc = "spec"
    /\ f_form' = ToFormData(f_spec)
    /\ f_pc' = "form"
    /\ UNCHANGED << workerVars, messages_tbl, callerVars, scrapeVars,
                    scoringVars, extraVars, planVars, f_spec, f_rebuilt >>

\* main, lines 60-107: the worker rebuilds the SearchParams from the map.
FormRebuild ==
    /\ f_pc = "form"
    /\ f_rebuilt' = RebuildSearchParams(f_form)
    /\ f_pc' = "rebuilt"
    /\ UNCHANGED << workerVars, messages_tbl, callerVars, scrapeVars,
                    scoringVars, extraVars, planVars, f_spec, f_form >>

NextForm == FormConvert \/ FormRebuild

SpecForm == InitForm /\ [][NextForm]_vars

\* C15: converting a SearchParams to the form map and rebuilding it as the
\* worker does gives back the original SearchParams, field for field.
C15_FormRoundTrip == f_pc = "rebuilt" => f_rebuilt = f_spec

\* ------------------------------------- one request to /api/ai/analyze
\* clean_keyword_field: None and the empty string give None; several
\* words without a comma are joined with commas.
CleanKeywordField(value) ==
    IF value = NoText THEN NoText
    ELSE IF Len(value.words) > 1 /\ ~value.commas
         THEN [value EXCEPT !.commas = TRUE]
         ELSE value

\* date.fromisoformat of the fields of a YYYY-MM-DD string; None when it
\* raises.
FromIsoFormat(str) ==
    IF Len(str) = 3 /\ str[2] \in 1..12 /\ str[3] \in 1..31
    THEN [y |-> str[1], m |-> str[2], d |-> str[3]]
    ELSE NoDate

\* _create_search_params: the SearchParams of the parameter object.
CreateSearchParams(ai_params) ==
    [keyword |-> CleanKeywordField(Get(ai_params, "keyword", NoText)),
     keywords_all |-> CleanKeywordField(Get(ai_params, "keywords_all", NoText)),
     keywords_phrase |->
         CleanKeywordField(Get(ai_params, "keywords_phrase", NoText)),
     keywords_any |-> CleanKeywordField(Get(ai_params, "keywords_any", NoText)),
     keywords_exclude |->
         CleanKeywordField(Get(ai_params, "keywords_exclude", NoText)),
     listserv |-> Get(ai_params, "listserv", "all"),
     author_first_name |-> Get(ai_params, "author_first_name", NoText),
     author_last_name |-> Get(ai_params, "author_last_name", NoText),
     posted_by |-> Get(ai_params, "posted_by", NoText),
     attachment_filter |-> Get(ai_params, "attachment_filter", "all"),
     date_from |-> IF "date_from" \in DOMAIN ai_params
                   THEN FromIsoFormat(ai_params["date_from"]) ELSE NoDate,
     date_to |-> IF "date_to" \in DOMAIN ai_params
                 THEN FromIsoFormat(ai_params["date_to"]) ELSE NoDate,
     search_in |-> IF Get(ai_params, "search_in", "") = "subject_only"
                   THEN "subject_only" ELSE "subject_and_body",
     max_pages |-> DefaultMaxPages,
     max_messages |-> DefaultMaxMessages]

\* The value the reply gives a parameter: absent, or one of `values`.
ParamChoices(key, values) ==
    { << >> } \cup { [k \in {key} |-> v] : v \in values }

\* The parameter objects of the replies of the planning call.
AiParams ==
    { kw @@ ko @@ ln @@ pb @@ df :
        kw \in ParamChoices("keyword", {Word("sibtf")}),
        ko \in ParamChoices("keywords_any",
                 {[words |-> << "qme", "ame" >>, commas |-> FALSE]}),
        ln \in ParamChoices("author_last_name", {Word("smith")}),
        pb \in ParamChoices("posted_by", {Word("lee")}),
        df \in ParamChoices("date_from",
                 {<< 2024, 3, 15 >>, << 2024, 15, 3 >>}) }

\* What the planning call does: it raises (network, API), its reply is no
\* JSON document, the "parameters" of its reply is a list, or the reply
\* carries a parameter object.
PlannerOutcomes ==
    { [kind |-> k, params |-> << >>] : k \in {"raised", "unparseable", "list"} }
    \cup { [kind |-> "params", params |-> ai] : ai \in AiParams }

\* _parse_ai_response: the parameter object, {} when the reply cannot be
\* parsed or its parameters are no dictionary.
ParseAiResponse(outcome) ==
    IF outcome.kind = "params" THEN outcome.params ELSE << >>

\* SearchParams(keyword=user_query)
FallbackParams(user_query) == [NewSearchParams EXCEPT !.keyword = user_query]

\* enhance_query: the fallback when the call raised, else the SearchParams
\* of whatever _parse_ai_response returned.
EnhanceQuery(user_query, outcome) ==
    IF outcome.kind = "raised" THEN FallbackParams(user_query)
    ELSE CreateSearchParams(ParseAiResponse(outcome))

\* ai_analyze, lines 544-579: whether the suggestions are non-empty.
HasSuggestions(sp) ==
    \/ sp.keyword # NoText \/ sp.keywords_all # NoText
    \/ sp.keywords_phrase # NoText \/ sp.keywords_any # NoText
    \/ sp.keywords_exclude # NoText \/ sp.listserv # "all"
    \/ sp.search_in # "subject_and_body" \/ sp.attachment_filter # "all"
    \/ sp.posted_by # NoText \/ sp.author_first_name # NoText
    \/ sp.author_last_name # NoText \/ sp.date_from # NoDate
    \/ sp.date_to # NoDate

\* The intents a user types.
Intents == { Word("sibtf"), [words |-> << "chris", "johnson" >>, commas |-> FALSE] }

InitPlan ==
    /\ storeEmpty
    /\ workerIdle
    /\ pc = "off"
    /\ callerIdle
    /\ scrapeIdle
    /\ scoringIdle
    /\ formIdle
    /\ extraIdle
    /\ p_pc = "request"
    /\ p_client \in BOOLEAN
    /\ p_intent \in Intents
    /\ p_fault = "none"
    /\ p_plan = NewSearchParams
    /\ p_response = "none"

\* ai_analyze, lines 452-454 and 583-584: no client is configured; the
\* HTTPException raised inside the try is caught and answered as a 500.
AnalyzeNoClient ==
    /\ p_pc = "request"
    /\ ~p_client
    /\ p_fault' = "no_client"
    /\ p_response' = "http_500"
    /\ p_pc' = "responded"
    /\ UNCHANGED << workerVars, messages_tbl, callerVars, scrapeVars,
                    scoringVars, extraVars, formVars, p_client, p_intent, p_plan >>

\* ai_analyze, lines 511-520 and 583-584: the vagueness call raises, or
\* json.loads raises on its reply; the request is answered as a 500.
ClarifierFails ==
    /\ p_pc = "request"
    /\ p_client
    /\ p_fault' \in {"clarifier_raised", "clarifier_unparseable"}
    /\ p_response' = "http_500"
    /\ p_pc' = "responded"
    /\ UNCHANGED << workerVars, messages_tbl, callerVars, scrapeVars,
                    scoringVars, extraVars, formVars, p_client, p_intent, p_plan >>

\* ai_analyze, lines 524-532: the reply says is_vague; the follow-up
\* question is returned.
ClarifierVague ==
    /\ p_pc = "request"
    /\ p_client
    /\ p_response' = "follow_up"
    /\ p_pc' = "responded"
    /\ UNCHANGED << workerVars, messages_tbl, callerVars, scrapeVars,
                    scoringVars, extraVars, formVars, p_client, p_intent, p_fault,
                    p_plan >>

\* ai_analyze, lines 534-536: the reply says the query is specific.
ClarifierSpecific ==
    /\ p_pc = "request"
    /\ p_client
    /\ p_pc' = "plan"
    /\ UNCHANGED << workerVars, messages_tbl, callerVars, scrapeVars,
                    scoringVars, extraVars, formVars, p_client, p_intent, p_fault,
                    p_plan, p_response >>

\* ai_analyze, lines 538-539: enhancer.enhance_query(request.intent)
PlanQuery ==
    /\ p_pc = "plan"
    /\ \E outcome \in PlannerOutcomes :
         /\ p_plan' = EnhanceQuery(p_intent, outcome)
         /\ p_fault' = CASE outcome.kind = "raised" -> "planner_raised"
                         [] outcome.kind = "params" -> "none"
                         [] OTHER -> "planner_unparseable"
    /\ p_pc' = "planned"
    /\ UNCHANGED << workerVars, messages_tbl, callerVars, scrapeVars,
                    scoringVars, extraVars, formVars, p_client, p_intent, p_response >>

\* ai_analyze, lines 541-581: the suggestions of the SearchParams are
\* returned (None when there is none).
RespondSuggestions ==
    /\ p_pc = "planned"
    /\ p_response' = IF HasSuggestions(p_plan) THEN "suggestions"
                     ELSE "no_suggestions"
    /\ p_pc' = "responded"
    /\ UNCHANGED << workerVars, messages_tbl, callerVars, scrapeVars,
                    scoringVars, extraVars, formVars, p_client, p_intent, p_fault,
                    p_plan >>

NextPlan ==
    \/ AnalyzeNoClient
    \/ ClarifierFails
    \/ ClarifierVague
    \/ ClarifierSpecific
    \/ PlanQuery
    \/ RespondSuggestions

SpecPlan == InitPlan /\ [][NextPlan]_vars

\* C17: when the reasoning service is unavailable to the Clarifier (no
\* client, the call raises, the reply cannot be parsed), the request is
\* treated as specific: it went through planning and was answered with the
\* planner's suggestions, never with an error.
C17_ClarifierFailsOpen ==
    (p_pc = "responded"
     /\ p_fault \in {"no_client", "clarifier_raised", "clarifier_unparseable"})
        => p_response \in {"suggestions", "no_suggestions"}

\* C18: when the planning call failed, by an error of the call or by a
\* reply that gives no parameter object, enhance_query returned the
\* SearchParams whose only retrieval field is keyword = the REAL question.
C18_PlannerFallsBackToKeyword ==
    (p_pc \in {"planned", "responded"}
     /\ p_fault \in {"planner_raised", "planner_unparseable"})
        => p_plan = FallbackParams(p_intent)

\* ----------------------------------------------------- the judge planner
\* Strings of the judge planner are sequences of characters, so that a prefix
\* can match inside a word as the regular expression of _extract_name does.
UpperCase == << "A", "B", "C", "D", "E", "F", "G", "H", "I", "J", "K", "L",
    "M", "N", "O", "P", "Q", "R", "S", "T", "U", "V", "W", "X", "Y", "Z" >>
LowerCase == << "a", "b", "c", "d", "e", "f", "g", "h", "i", "j", "k", "l",
    "m", "n", "o", "p", "q", "r", "s", "t", "u", "v", "w", "x", "y", "z" >>

\* str.lower() of one character and of a string.
Lower(c) ==
    IF \E k \in 1..26 : UpperCase[k] = c
    THEN LowerCase[CHOOSE k \in 1..26 : UpperCase[k] = c]
    ELSE c

ToLower(str) == [k \in 1..Len(str) |-> Lower(str[k])]

\* \s of the patterns and the characters str.strip() removes.
Whitespace == {" "}

\* The longest suffix of str that does not start with one of chars.
RECURSIVE LStripChars(_, _)
LStripChars(str, chars) ==
    IF str # << >> /\ Head(str) \in chars
    THEN LStripChars(Tail(str), chars)
    ELSE str

\* The longest prefix of str that does not end with one of chars.
RECURSIVE RStripChars(_, _)
RStripChars(str, chars) ==
    IF str # << >> /\ str[Len(str)] \in chars
    THEN RStripChars(SubSeq(str, 1, Len(str) - 1), chars)
    ELSE str

\* str.strip()
StrStrip(str) == RStripChars(LStripChars(str, Whitespace), Whitespace)

\* str.split(): the words between runs of whitespace.
RECURSIVE StrSplit(_)
StrSplit(str) ==
    LET t == LStripChars(str, Whitespace) IN
      IF t = << >> THEN << >>
      ELSE LET ends == { k \in 1..Len(t) : t[k] \in Whitespace }
               n == IF ends = {} THEN Len(t) + 1
                    ELSE CHOOSE k \in ends : \A e \in ends : k <= e
           IN << SubSeq(t, 1, n - 1) >> \o StrSplit(SubSeq(t, n, Len(t)))

\* sep.join(list)
RECURSIVE StrJoin(_, _)
StrJoin(sep, list) ==
    IF list = << >> THEN << >>
    ELSE IF Len(list) = 1 THEN list[1]
    ELSE list[1] \o sep \o StrJoin(sep, Tail(list))

\* _extract_name, lines 278-279: re.compile(rf'^{re.escape(prefix)}[\s.]*',
\* re.IGNORECASE).sub('', name): the prefix at the start of the name, in any
\* case and whatever follows it, is removed with the blanks and periods
\* after it.
PrefixSub(name, prefix) ==
    IF /\ Len(name) >= Len(prefix)
       /\ ToLower(SubSeq(name, 1, Len(prefix))) = ToLower(prefix)
    THEN LStripChars(SubSeq(name, Len(prefix) + 1, Len(name)),
                     Whitespace \cup {"."})
    ELSE name

\* _extract_name, lines 276-279: the loop over the prefixes, in list order.
RECURSIVE StripPrefixes(_, _)
StripPrefixes(name, prefixes) ==
    IF prefixes = << >> THEN name
    ELSE StripPrefixes(StrStrip(PrefixSub(name, Head(prefixes))),
                       Tail(prefixes))

\* _extract_name: (full_name, last_name)
ExtractName(raw_name, prefixes) ==
    LET name == StripPrefixes(StrStrip(raw_name), prefixes)
        parts == StrSplit(name)
    IN  [full_name |-> name,
         last_name |-> IF Len(parts) >= 2 THEN parts[Len(parts)] ELSE name]

Sp == << " " >>
CommaSp == << ",", " " >>
Judge == << "J", "u", "d", "g", "e" >>
HonDot == << "H", "o", "n", "." >>
Hon == << "H", "o", "n" >>
Honorable == << "H", "o", "n", "o", "r", "a", "b", "l", "e" >>
WCJ == << "W", "C", "J" >>
WorkersCompensationJudge ==
    << "W", "o", "r", "k", "e", "r", "s", " ", "C", "o", "m", "p", "e",
    "n", "s", "a", "t", "i", "o", "n", " ", "J", "u", "d", "g", "e" >>
WorkersAposCompensationJudge ==
    << "W", "o", "r", "k", "e", "r", "s", "'", " ", "C", "o", "m", "p",
    "e", "n", "s", "a", "t", "i", "o", "n", " ", "J", "u", "d", "g", "e" >>

\* enhance_judge_query, lines 309-312
judge_prefixes ==
    << Judge, HonDot, Hon, Honorable, WCJ, WorkersCompensationJudge,
       WorkersAposCompensationJudge >>

\* enhance_judge_query, lines 317-338: the variations list before duplicates
\* are removed.
Variations(full_name, last_name) ==
    << Judge \o Sp \o last_name, last_name, HonDot \o Sp \o last_name,
       Hon \o Sp \o last_name, WCJ \o Sp \o last_name,
       Honorable \o Sp \o last_name, last_name \o Sp \o WCJ >>
    \o (IF full_name # last_name
        THEN << Judge \o Sp \o full_name, full_name,
                HonDot \o Sp \o full_name, WCJ \o Sp \o full_name,
                Honorable \o Sp \o full_name >>
        ELSE << >>)

\* enhance_judge_query, lines 343-346: the variations in order, each kept
\* when its lower-case form was not seen before.
RECURSIVE UniqueVariations(_, _)
UniqueVariations(variations, seen) ==
    IF variations = << >> THEN << >>
    ELSE LET v == Head(variations) IN
           IF ToLower(v) \in seen
           THEN UniqueVariations(Tail(variations), seen)
           ELSE << v >> \o UniqueVariations(Tail(variations),
                                            seen \cup {ToLower(v)})

\* The variations of the calls an enhancer served before, in lower case.
SeenBefore(calls) ==
    UNION { LET n == ExtractName(calls[k].name, judge_prefixes)
                vs == Variations(n.full_name, n.last_name)
            IN  { ToLower(vs[x]) : x \in 1..Len(vs) } : k \in 1..Len(calls) }

\* A set that lives in the enhancer and is carried from call to call.
NewSeen_Kept(calls) == SeenBefore(calls)

\* enhance_judge_query, line 341: seen = set(), a local of the call, empty
\* whatever calls the enhancer served before.
NewSeen(calls) == {}

\* The Optional[str] fields of SearchParams that are left at None.
NoStr == << >>

\* enhance_judge_query(name) on an enhancer that served calls before.
EnhanceJudgeQuery(name, calls) ==
    LET n == ExtractName(name, judge_prefixes)
        unique_variations ==
            UniqueVariations(Variations(n.full_name, n.last_name),
                             NewSeen(calls))
    IN  [keywords_any |-> StrJoin(CommaSp, unique_variations),
         keywords_all |-> NoStr,
         max_pages |-> 10,
         max_messages |-> 100]

\* The titles a judge name is typed with, and bare names of one and two
\* words.
JudgeTitles ==
    { Judge, HonDot, Hon, Honorable, WCJ, WorkersCompensationJudge,
      WorkersAposCompensationJudge }

BareNames == { << "D", "o", "b", "r", "i", "n" >>,
               << "J", "o", "h", "n", " ", "D", "o", "b", "r", "i", "n" >> }

JudgeInputs == BareNames \cup { T \o Sp \o N : T \in JudgeTitles, N \in BareNames }

\* Calls one enhancer serves.
MaxCalls == 3

InitJudge ==
    /\ storeEmpty
    /\ workerIdle
    /\ pc = "off"
    /\ callerIdle
    /\ scrapeIdle
    /\ scoringIdle
    /\ formIdle
    /\ planIdle
    /\ pagingIdle
    /\ synthIdle
    /\ j_calls = << >>

judgeRest ==
    << workerVars, messages_tbl, callerVars, scrapeVars, scoringVars,
       formVars, planVars, pagingVars, synthVars >>

\* One call of enhance_judge_query with a name of JudgeInputs.
JudgeCall ==
    /\ Len(j_calls) < MaxCalls
    /\ \E name \in JudgeInputs :
         j_calls' = Append(j_calls,
                           [name |-> name,
                            plan |-> EnhanceJudgeQuery(name, j_calls)])
    /\ UNCHANGED judgeRest

NextJudge == JudgeCall

SpecJudge == InitJudge /\ [][NextJudge]_vars

\* The keywords of a comma-separated list.
RECURSIVE SplitCommas(_)
SplitCommas(str) ==
    IF str = << >> THEN << >>
    ELSE LET cuts == { k \in 1..Len(str) - 1 :
                         SubSeq(str, k, k + 1) = CommaSp }
         IN  IF cuts = {} THEN << str >>
             ELSE LET n == CHOOSE k \in cuts : \A e \in cuts : k <= e
                  IN  << SubSeq(str, 1, n - 1) >>
                      \o SplitCommas(SubSeq(str, n + 2, Len(str)))

DuplicateFree(list) ==
    \A a, b \in 1..Len(list) : list[a] = list[b] => a = b

\* C22: for every title T and bare name N, the plan of the call with 'T N'
\* equals the plan of the call with 'N'; its keywords_any is a duplicate-free
\* comma-separated list and its keywords_all is empty.
C22_TitleStripped ==
    \A a, b \in 1..Len(j_calls) : \A T \in JudgeTitles :
        (/\ j_calls[b].name \in BareNames
         /\ j_calls[a].name = T \o Sp \o j_calls[b].name)
        => /\ j_calls[a].plan = j_calls[b].plan
           /\ DuplicateFree(SplitCommas(j_calls[a].plan.keywords_any))
           /\ j_calls[a].plan.keywords_all = NoStr

\* C23: two calls of one enhancer with the same name return the same
\* keywords_any, whatever calls were served before and between them.
C23_Deterministic ==
    \A a, b \in 1..Len(j_calls) :
        j_calls[a].name = j_calls[b].name
        => j_calls[a].plan.keywords_any = j_calls[b].plan.keywords_any

\* A name was planned, another name after it, then the first name again.
C23_Witness ==
    /\ Len(j_calls) = 3
    /\ j_calls[1].name = j_calls[3].name
    /\ j_calls[1].name # j_calls[2].name

\* ------------------------------------------ the pagination loop step by step
\* What a lookup of _go_to_next_page finds for a strategy: a visible control
\* whose click and the wait after it work, no control, a control that is not
\* visible, or a lookup, click or wait that raises.
ControlStates == {"ok", "absent", "hidden", "raises"}

\* The pagination bar of a result page and its three controls: the link with
\* the next page number, .bucketPagingButtonNextPage, the link with the text
\* Next. Without a visible bar there is no control.
NavOutcomes ==
    { [bar |-> TRUE, controls |-> c] : c \in [1..3 -> ControlStates] }
    \cup { [bar |-> FALSE, controls |-> NoControls] }

RECURSIVE TryStrategies(_, _, _)
\* _go_to_next_page, lines 270-318, from strategy k on: a strategy that
\* works returns True, one whose control is absent or hidden falls through
\* to the next, one that raises ends the call in the except clause with
\* False; after the third, False.
TryStrategies(controls, k, attempted) ==
    IF k > 3 THEN [found |-> FALSE, attempted |-> attempted]
    ELSE IF controls[k] = "ok"
    THEN [found |-> TRUE, attempted |-> attempted \cup {k}]
    ELSE IF controls[k] = "raises"
    THEN [found |-> FALSE, attempted |-> attempted \cup {k}]
    ELSE TryStrategies(controls, k + 1, attempted \cup {k})

\* _go_to_next_page: the wait for the visible pagination bar raises when
\* there is none (lines 262, 314-318), else the strategies are tried.
GoToNextPage(bar, controls) ==
    IF ~bar THEN [found |-> FALSE, attempted |-> {}]
    ELSE TryStrategies(controls, 1, {})

InitPaging ==
    /\ storeEmpty
    /\ workerIdle
    /\ pc = "off"
    /\ callerIdle
    /\ scrapeIdle
    /\ scoringIdle
    /\ formIdle
    /\ planIdle
    /\ judgeIdle
    /\ synthIdle
    /\ g_pc = "while"
    /\ g_pages \in { Paginate(rows) : rows \in UpstreamRows }
    /\ g_max_pages \in 0..MaxMsgs
    /\ g_max_messages \in 0..MaxMsgs
    /\ g_current_page = 1
    /\ g_message_ids = << >>
    /\ g_read = 0
    /\ g_navigations = 0
    /\ g_bar = FALSE
    /\ g_controls = NoControls
    /\ g_attempted = {}
    /\ next_page_found = FALSE
    /\ g_out = << >>

pagingRest ==
    << workerVars, messages_tbl, callerVars, scrapeVars, scoringVars,
       formVars, planVars, judgeVars, synthVars >>

\* Lines 173 and 251: the loop condition is false, the list is trimmed and
\* returned.
LoopExit ==
    /\ g_pc = "while"
    /\ ~LoopCondition(g_current_page, g_message_ids, g_max_pages,
                      g_max_messages)
    /\ g_out' = Trim(g_message_ids, g_max_messages)
    /\ g_pc' = "done"
    /\ UNCHANGED << pagingRest, g_pages, g_max_pages, g_max_messages,
                    g_current_page, g_message_ids, g_read, g_navigations,
                    g_bar, g_controls, g_attempted, next_page_found >>

\* Lines 174-248 of one iteration: the page is read; without a results table
\* the loop breaks, else the rows are appended, and the loop breaks when
\* max_messages is reached or current_page is the last allowed page.
ReadPage ==
    /\ g_pc = "while"
    /\ LoopCondition(g_current_page, g_message_ids, g_max_pages,
                     g_max_messages)
    /\ g_read' = g_read + 1
    /\ IF g_current_page > Len(g_pages) \/ g_pages[g_current_page] = << >>
       THEN /\ g_message_ids' = g_message_ids
            /\ g_pc' = "done"
       ELSE /\ g_message_ids' =
                 g_message_ids \o PageMessages(g_pages[g_current_page],
                                               Len(g_message_ids),
                                               g_current_page, << >>)
            /\ g_pc' = IF Len(g_message_ids') >= g_max_messages THEN "done"
                       ELSE IF g_current_page < g_max_pages THEN "navigate"
                       ELSE "done"
    /\ g_out' = IF g_pc' = "done"
                THEN Trim(g_message_ids', g_max_messages) ELSE g_out
    /\ UNCHANGED << pagingRest, g_pages, g_max_pages, g_max_messages,
                    g_current_page, g_navigations, g_bar, g_controls,
                    g_attempted, next_page_found >>

\* Lines 240-246: next_page_found = self._go_to_next_page(page, current_page);
\* break when it is False, else current_page += 1.
Navigate ==
    /\ g_pc = "navigate"
    /\ \E o \in NavOutcomes :
         LET r == GoToNextPage(o.bar, o.controls) IN
           /\ g_bar' = o.bar
           /\ g_controls' = o.controls
           /\ g_attempted' = r.attempted
           /\ next_page_found' = r.found
    /\ g_navigations' = g_navigations + 1
    /\ IF next_page_found'
       THEN /\ g_current_page' = g_current_page + 1
            /\ g_pc' = "while"
            /\ g_out' = g_out
       ELSE /\ g_current_page' = g_current_page
            /\ g_pc' = "done"
            /\ g_out' = Trim(g_message_ids, g_max_messages)
    /\ UNCHANGED << pagingRest, g_pages, g_max_pages, g_max_messages,
                    g_message_ids, g_read >>

NextPaging == LoopExit \/ ReadPage \/ Navigate

SpecPaging == InitPaging /\ [][NextPaging]_vars

\* The browser and the interpreter keep running: a step of the loop that can
\* be taken is taken.
SpecPagingFair == SpecPaging /\ WF_vars(NextPaging)

\* At most max_pages pages were read, the returned list has at most
\* max_messages records, and after a navigation that found no next page the
\* loop is over without another page read.
PagingWithinCaps ==
    /\ g_read <= g_max_pages
    /\ g_pc = "done" => Len(g_out) <= g_max_messages
    /\ (g_navigations > 0 /\ ~next_page_found)
       => (g_pc = "done" /\ g_read = g_navigations)

\* C24: for every max_pages and max_messages, 0 included, the pagination
\* loop ends, reads at most max_pages pages, returns at most max_messages
\* records and stops once a navigation to the next page does not succeed.
C24_LoopEndsWithinCaps == [](PagingWithinCaps) /\ <>(g_pc = "done")

\* The loop is over after a navigation found no next page while max_pages and
\* max_messages would have allowed another page.
C24_Witness ==
    /\ g_pc = "done"
    /\ g_navigations > 0
    /\ ~next_page_found
    /\ g_current_page < g_max_pages
    /\ Len(g_message_ids) < g_max_messages
    /\ g_out # << >>

\* C26: a navigation tries the number link, the next-page control and the
\* Next text link in this order; a strategy is attempted whenever no earlier
\* one succeeded (absent, not visible or raising), and the navigation fails
\* only when all three fail.
C26_LaterStrategyTried ==
    (g_navigations > 0 /\ g_bar) =>
        /\ \A k \in 1..3 :
             (\A j \in 1..k - 1 : g_controls[j] # "ok") => k \in g_attempted
        /\ ~next_page_found => \A k \in 1..3 : g_controls[k] # "ok"

\* ------------------------------------------------- the synthesize methods
\* synthesize_doctor_evaluation, synthesize_judge_evaluation,
\* synthesize_adjuster_evaluation, synthesize_defense_attorney_evaluation and
\* synthesize_insurance_company_evaluation.
SynthModes ==
    {"doctor", "judge", "adjuster", "defense_attorney", "insurance_company"}

\* The list the evaluation of the reply is checked against (lines 674, 822,
\* 974, 1126, 1286).
AllowedLabels(mode) ==
    IF mode = "defense_attorney"
    THEN {"easy_to_deal_with", "moderate", "difficult_to_deal_with",
          "insufficient_data"}
    ELSE {"good", "bad", "mixed", "insufficient_data"}

\* The label used when the reply has none or an unknown one.
DefaultLabel(mode) == IF mode = "defense_attorney" THEN "moderate" ELSE "mixed"

\* The dict returned for an empty message list (lines 635-641, 1087-1093).
NoMessagesResult == [score |-> 0, evaluation |-> "unknown"]

\* The dict returned by the except clause (lines 690-699, 1153-1160).
ErrorResult(mode) ==
    [score |-> IF mode = "doctor" THEN 50 ELSE 0, evaluation |-> "error"]

\* Scores a reply may carry.
ReplyScores == {0 - 20, 0, 73, 100, 150}

\* The 'score' of the JSON object of a reply: missing, an integer, or a text
\* int() does not accept.
ScoreFields ==
    { [kind |-> "absent", v |-> 0], [kind |-> "text", v |-> 0] }
    \cup { [kind |-> "int", v |-> n] : n \in ReplyScores }

\* The 'evaluation' of the JSON object: missing, null, or a string.
EvaluationFields ==
    {"<absent>", "<null>", "good", "bad", "mixed", "insufficient_data",
     "easy_to_deal_with", "moderate", "difficult_to_deal_with", "Good",
     "excellent"}

\* What the reasoning service does with the request: the call raises, the
\* reply has no {...}, the {...} is not valid JSON, or it is a JSON object.
SynthReplies ==
    { [NoReply EXCEPT !.kind = k] : k \in {"raises", "no_json", "bad_json"} }
    \cup { [kind |-> "json", score |-> sf, evaluation |-> e] :
             sf \in ScoreFields, e \in EvaluationFields }

\* str.lower() of the labels above.
LabelLower(label) == IF label = "Good" THEN "good" ELSE label

\* max(0, min(100, score))
ClampScore(score) == IF score < 0 THEN 0 ELSE IF score > 100 THEN 100 ELSE score

\* Lines 673-675 and 1125-1135: the label in lower case, an old label mapped
\* to the defense attorney scale, any other label replaced by the default.
NormalizeLabel(mode, label) ==
    LET evaluation == LabelLower(label) IN
      IF evaluation \in AllowedLabels(mode) THEN evaluation
      ELSE IF mode = "defense_attorney" /\ evaluation = "good"
      THEN "easy_to_deal_with"
      ELSE IF mode = "defense_attorney" /\ evaluation = "bad"
      THEN "difficult_to_deal_with"
      ELSE DefaultLabel(mode)

\* synthesize_*_evaluation(name, messages) for n_messages messages and the
\* reply of the reasoning service.
SynthesizeEvaluation(mode, n_messages, reply) ==
    IF n_messages = 0 THEN NoMessagesResult
    ELSE IF reply.kind \in {"raises", "bad_json"} THEN ErrorResult(mode)
    ELSE LET result == IF reply.kind = "json" THEN reply
                       ELSE [kind |-> "json",
                             score |-> [kind |-> "int", v |-> 50],
                             evaluation |-> DefaultLabel(mode)]
         IN  IF result.score.kind = "text" \/ result.evaluation = "<null>"
             THEN ErrorResult(mode)
             ELSE [score |-> IF result.score.kind = "absent" THEN 50
                             ELSE ClampScore(result.score.v),
                   evaluation |->
                       IF result.evaluation = "<absent>"
                       THEN NormalizeLabel(mode, DefaultLabel(mode))
                       ELSE NormalizeLabel(mode, result.evaluation)]

InitSynth ==
    /\ storeEmpty
    /\ workerIdle
    /\ pc = "off"
    /\ callerIdle
    /\ scrapeIdle
    /\ scoringIdle
    /\ formIdle
    /\ planIdle
    /\ judgeIdle
    /\ pagingIdle
    /\ y_pc = "call"
    /\ y_mode \in SynthModes
    /\ y_messages \in 0..MaxMsgs
    /\ y_reply \in SynthReplies
    /\ y_result = [score |-> 0, evaluation |-> "none"]

\* One call of the method of y_mode.
SynthCall ==
    /\ y_pc = "call"
    /\ y_result' = SynthesizeEvaluation(y_mode, y_messages, y_reply)
    /\ y_pc' = "returned"
    /\ UNCHANGED << workerVars, messages_tbl, callerVars, scrapeVars,
                    scoringVars, formVars, planVars, judgeVars, pagingVars,
                    y_mode, y_messages, y_reply >>

NextSynth == SynthCall

SpecSynth == InitSynth /\ [][NextSynth]_vars

\* C27: the dict a synthesize method returned, for every reply and for an
\* empty message list, has a score within 0..100 and an evaluation of the
\* allowed set of its mode.
C27_ScoreAndLabelInRange ==
    y_pc = "returned" =>
        /\ y_result.score \in 0..100
        /\ y_result.evaluation \in AllowedLabels(y_mode)

====
